---- MODULE Spec2Model ----
(***************************************************************************)
(* Model of the multi-page OcrModal of handwriting-to-text                 *)
(* (src/src/ocr-modal.ts:62-548) with its collaborators GeminiClient       *)
(* (src/src/gemini.ts) and normalizeImage (src/src/utils.ts).              *)
(*                                                                         *)
(* The modal is single-threaded and event driven.  Every async method is   *)
(* cut at its await points: an entry of `tasks' is one suspended run of an *)
(* async method, holding the locals that live across the await.  One       *)
(* action is one event-loop turn: a user event (a DOM listener firing) or  *)
(* the resumption of one suspended run, executed up to its next await.     *)
(* Listeners exist only while the element that carries them is in          *)
(* contentEl (`dom'), except the drop listener, which renderSelect puts on *)
(* contentEl itself and contentEl.empty() therefore never removes.         *)
(* Positions in sequences are 1-based here and 0-based in the source.      *)
(***************************************************************************)
EXTENDS Integers, Sequences, FiniteSets, TLC

\* ---------------------------------------------------------------- bounds
MaxFiles    == 2   \* files the user supplies during one session
MaxTasks    == 2   \* async runs suspended at the same time
MaxAttempts == 2   \* entries into processAllImages during one session
MaxPages    == 3   \* pages of the queue a batch session starts from
MaxDepth    == 3   \* nested calls of normalizeImage that are followed

VARIABLES
    state,          \* this.state
    screen,         \* what the last render call put up (title and body)
    message,        \* text of the error notice renderError shows
    dom,            \* listeners carried by the children of contentEl
    dropListeners,  \* drop listeners registered on contentEl itself
    arrs,           \* the array objects this.images has pointed to
    cur,            \* this.images is arrs[cur]
    items,          \* heap of ImageItem objects, item id = position
    made,           \* per item: object URLs ever created for it
    combinedText,   \* this.combinedText
    objectUrls,     \* this.objectUrls (its order is never used)
    liveUrls,       \* object URLs created and not yet revoked
    settings,       \* the shared HandwritingToTextSettings object
    tasks,          \* suspended runs of the async methods
    closed,         \* the modal has been closed
    sent,           \* requests handed to requestUrl, oldest first
    inserted,       \* texts handed to editor.replaceSelection
    attempts,       \* entries into processAllImages so far
    nextFile,       \* files supplied so far
    last,           \* what the last event-loop turn did
    call            \* the last call made to a function on its own

vars == << state, screen, message, dom, dropListeners, arrs, cur, items, made,
           combinedText, objectUrls, liveUrls, settings, tasks, closed, sent,
           inserted, attempts, nextFile, last, call >>

\* ------------------------------------------------------------- utilities
Range(s) == { s[i] : i \in 1..Len(s) }

\* splice of the last element whatever the position asked for
RemoveLast(s, i) == [ j \in 1..(Len(s) - 1) |-> s[j] ]

\* Array.prototype.splice(i, 1)
RemoveAt(s, i) == [ j \in 1..(Len(s) - 1) |-> IF j < i THEN s[j] ELSE s[j + 1] ]

\* ------------------------------------------------------------- utils.ts
MIME_MAP ==
    [ jpg |-> "image/jpeg", jpeg |-> "image/jpeg", png |-> "image/png",
      gif |-> "image/gif", webp |-> "image/webp", heic |-> "image/heic",
      heif |-> "image/heif" ]

WEB_SAFE_MIMES == { "image/jpeg", "image/png", "image/gif", "image/webp" }

\* getMimeType, applied to the extension that follows the last dot
getMimeType(ext) ==
    IF ext \in DOMAIN MIME_MAP THEN MIME_MAP[ext] ELSE "image/jpeg"

\* arrayBufferToBase64: an encoding of the bytes, not the bytes
arrayBufferToBase64(buffer) == << "base64", buffer >>

\* Image bytes: the file they came from, the width and height of the
\* picture they encode, and which encoder produced them.
Bytes(c, width, height, enc) ==
    [ c |-> c, width |-> width, height |-> height, enc |-> enc ]

MAX_DIMENSION == 4096

\* Math.max of two numbers
MathMax(a, b) == IF a >= b THEN a ELSE b

\* Math.round(n / d) for n >= 0 and d > 0: the nearest integer, a half
\* rounded up.  The quotient is taken exactly.
MathRound(n, d) == (2 * n + d) \div (2 * d)

\* the resize decided for a side that equals MAX_DIMENSION too
needsResizeAtBound(width, height) ==
    width >= MAX_DIMENSION \/ height >= MAX_DIMENSION

\* width > MAX_DIMENSION || height > MAX_DIMENSION
needsResize(width, height) == width > MAX_DIMENSION \/ height > MAX_DIMENSION

\* the scaled side truncated instead of rounded
scaleDimensionTruncated(x, width, height) ==
    IF needsResize(width, height)
    THEN (x * MAX_DIMENSION) \div MathMax(width, height)
    ELSE x

\* Math.round(x * scale), x being the width or the height of the bitmap and
\* scale being MAX_DIMENSION / Math.max(width, height) or 1
scaleDimension(x, width, height) ==
    IF needsResize(width, height)
    THEN MathRound(x * MAX_DIMENSION, MathMax(width, height))
    ELSE x

\* bitmapToJpeg: the canvas re-encoding at the target size, or an exception
\* when no 2d context is available or the encoder yields no blob.
bitmapToJpeg(buffer, targetWidth, targetHeight) ==
    { [ throws |-> FALSE, bitmap |-> TRUE, mimeType |-> "image/jpeg",
        buffer |-> Bytes(buffer.c, targetWidth, targetHeight, "canvas") ],
      [ throws |-> TRUE, bitmap |-> TRUE, buffer |-> buffer,
        mimeType |-> "image/jpeg" ] }

\* the native conversion with its result labelled by a format that is not
\* in the safe list
convertWithNativeImageMislabelled(buffer) ==
    { [ ok |-> TRUE, mimeType |-> "image/jpg",
        buffer |-> Bytes(buffer.c, buffer.width, buffer.height, "native") ],
      [ ok |-> FALSE, buffer |-> buffer, mimeType |-> "" ] }

\* convertWithNativeImage: a JPEG of the same dimensions, or null
convertWithNativeImage(buffer) ==
    { [ ok |-> TRUE, mimeType |-> "image/jpeg",
        buffer |-> Bytes(buffer.c, buffer.width, buffer.height, "native") ],
      [ ok |-> FALSE, buffer |-> buffer, mimeType |-> "" ] }

\* normalizeImage as called at nesting depth `depth': every result the call
\* can settle with.  tryCreateBitmap yields a bitmap or null (decode failure
\* or timeout) for any input; `bitmap' tells which it was in the call that
\* produced the result, `depth' is the nesting depth of that call and
\* `conversions' the number of calls of convertWithNativeImage made on the
\* way.  A call nested deeper than MaxDepth is not followed.
RECURSIVE normalizeImageFrom(_, _, _)
normalizeImageFrom(buffer, mimeType, depth) ==
    LET needsConversion == mimeType \notin WEB_SAFE_MIMES
        resize          == needsResize(buffer.width, buffer.height)
        Result(o, n) == [ throws |-> o.throws, bitmap |-> o.bitmap,
                          buffer |-> o.buffer, mimeType |-> o.mimeType,
                          depth |-> depth, conversions |-> n ]
        same(b, n) == Result([ throws |-> FALSE, bitmap |-> b, buffer |-> buffer,
                               mimeType |-> mimeType ], n)
        withBitmap ==
            IF ~needsConversion /\ ~resize
            THEN { same(TRUE, 0) }
            ELSE { Result(o, 0) :
                     o \in bitmapToJpeg(buffer,
                             scaleDimension(buffer.width, buffer.width, buffer.height),
                             scaleDimension(buffer.height, buffer.width, buffer.height)) }
        withoutBitmap ==
            IF needsConversion
            THEN UNION { IF cv.ok
                         THEN { [ o EXCEPT !.conversions = @ + 1 ] :
                                  o \in normalizeImageFrom(cv.buffer, cv.mimeType,
                                                           depth + 1) }
                         ELSE { same(FALSE, 1) } : cv \in convertWithNativeImage(buffer) }
            ELSE { same(FALSE, 0) }
    IN  IF depth > MaxDepth THEN { same(FALSE, 0) }
        ELSE withBitmap \cup withoutBitmap

\* normalizeImage(buffer, mimeType)
normalizeImage(buffer, mimeType) == normalizeImageFrom(buffer, mimeType, 0)

\* ----------------------------------------------------------- settings.ts
OcrPrompt == << "Transcribe the handwritten content." >>

DEFAULT_SETTINGS ==
    [ geminiApiKey |-> "", model |-> "gemini-2.5-flash", ocrPrompt |-> OcrPrompt,
      pageSeparator |-> "---", showPageNumbers |-> TRUE ]

\* ------------------------------------------------------------- gemini.ts
\* Texts are sequences of characters so that trimming is computed.
IsSpace(ch) == ch \in { " ", "\n" }

RECURSIVE TrimLeft(_)
TrimLeft(t) ==
    IF t # << >> /\ IsSpace(Head(t)) THEN TrimLeft(Tail(t)) ELSE t

RECURSIVE TrimRight(_)
TrimRight(t) ==
    IF t # << >> /\ IsSpace(t[Len(t)])
    THEN TrimRight(SubSeq(t, 1, Len(t) - 1))
    ELSE t

\* String.prototype.trim
Trim(t) == TrimRight(TrimLeft(t))

MsgMissingKey == "Missing Gemini API key"
MsgRateLimit  == "Rate limited by Gemini API. Please wait a moment and try again."
MsgForbidden  == "Gemini API key is invalid or does not have access. Check your key in settings."
MsgEmpty      == "Gemini returned an empty response. The image may be unreadable."

\* What requestUrl can settle with: a rejection carrying a status and a
\* message, or a response whose JSON has an error payload and/or a text.
Rejection(status, msg) ==
    [ kind |-> "reject", status |-> status, message |-> msg,
      hasError |-> FALSE, hasText |-> FALSE, text |-> << >> ]

Payload(hasError, msg, hasText, text) ==
    [ kind |-> "json", status |-> 200, message |-> msg,
      hasError |-> hasError, hasText |-> hasText, text |-> text ]

\* the body of the request: one text part, then one inline_data part per
\* image in the order of the images array
RequestParts(images, prompt) ==
    << [ kind |-> "text", text |-> prompt, mime_type |-> "", data |-> << >>, id |-> 0 ] >>
    \o [ i \in 1..Len(images) |->
           [ kind |-> "inline_data", text |-> << >>,
             mime_type |-> images[i].mimeType, data |-> images[i].base64,
             id |-> images[i].id ] ]

\* the reading of the response with the text looked at before the error
\* payload
ParseResponseTextFirst(r) ==
    IF r.kind = "reject"
    THEN IF r.status = 429 THEN [ ok |-> FALSE, error |-> MsgRateLimit, text |-> << >> ]
         ELSE IF r.status = 403 THEN [ ok |-> FALSE, error |-> MsgForbidden, text |-> << >> ]
         ELSE [ ok |-> FALSE, text |-> << >>,
                error |-> IF r.message # "" THEN "Gemini API request failed: " \o r.message
                          ELSE "Gemini API request failed: Network error" ]
    ELSE IF r.hasText /\ r.text # << >>
         THEN [ ok |-> TRUE, error |-> "", text |-> Trim(r.text) ]
         ELSE IF r.hasError
              THEN [ ok |-> FALSE, text |-> << >>,
                     error |-> IF r.message # "" THEN "Gemini API error: " \o r.message
                               ELSE "Gemini API error: Unknown error" ]
              ELSE [ ok |-> FALSE, error |-> MsgEmpty, text |-> << >> ]

\* extractTextFromImages from the settled request to its own outcome
ParseResponse(r) ==
    IF r.kind = "reject"
    THEN IF r.status = 429 THEN [ ok |-> FALSE, error |-> MsgRateLimit, text |-> << >> ]
         ELSE IF r.status = 403 THEN [ ok |-> FALSE, error |-> MsgForbidden, text |-> << >> ]
         ELSE [ ok |-> FALSE, text |-> << >>,
                error |-> IF r.message # "" THEN "Gemini API request failed: " \o r.message
                          ELSE "Gemini API request failed: Network error" ]
    ELSE IF r.hasError
         THEN [ ok |-> FALSE, text |-> << >>,
                error |-> IF r.message # "" THEN "Gemini API error: " \o r.message
                          ELSE "Gemini API error: Unknown error" ]
         ELSE IF ~r.hasText \/ r.text = << >>
              THEN [ ok |-> FALSE, error |-> MsgEmpty, text |-> << >> ]
              ELSE [ ok |-> TRUE, error |-> "", text |-> Trim(r.text) ]

\* extractTextFromImages as one call: the check of the key, the request and
\* the reading of what requestUrl settled with; `requests' counts the calls
\* of requestUrl
extractTextFromImages(apiKey, r) ==
    IF apiKey = ""
    THEN [ ok |-> FALSE, error |-> MsgMissingKey, text |-> << >>, requests |-> 0 ]
    ELSE LET o == ParseResponse(r)
         IN  [ ok |-> o.ok, error |-> o.error, text |-> o.text, requests |-> 1 ]

\* the outcomes of the remote service the session is explored with
Responses ==
    { Rejection(429, "Too Many Requests"),
      Payload(FALSE, "", TRUE, << " ", "H", "i", "\n" >>) }

\* ------------------------------------------------------------ ocr-modal.ts
NoUrl == [ item |-> 0, n |-> 0 ]

\* the text the textarea can be edited to
EditedText == << "H", "i", "!" >>

MsgNoKey == "No API key configured. Please set your Gemini API key in the plugin settings."

\* contentEl.empty(): no child, so no listener of a child, is left
EmptyDom ==
    [ selectUi |-> FALSE, rows |-> 0, queueActions |-> FALSE,
      insertBtn |-> FALSE, retryBtn |-> FALSE ]

\* a free slot of `tasks'
Idle ==
    [ kind |-> "idle", pc |-> "-", files |-> << >>, arr |-> 0, idx |-> 0,
      item |-> 0, argBuf |-> Bytes(0, 1, 1, "raw"), argMime |-> "",
      parts |-> << >>, total |-> 0, snap |-> << >>, via |-> "",
      cfg |-> DEFAULT_SETTINGS ]

\* the files a picker, a drop or the vault can hand over: content c, the
\* browser-reported type (possibly empty), the extension of the name and
\* the size of the picture
File(c, type, ext, width, height) ==
    [ c |-> c, type |-> type, ext |-> ext, width |-> width, height |-> height ]

\* the files the user has at hand, in the order they are supplied: an
\* ordinary JPEG, then an oversized HEIC photo whose type the browser does
\* not report, and so on in turn
UserFile(c) ==
    IF c % 2 = 1 THEN File(c, "image/jpeg", "jpg", 800, 600)
    ELSE File(c, "", "heic", 6000, 8000)

\* no function has been called on its own
NoCall == [ fn |-> "none" ]

\* the whole program state as one value, so that the statements of a method
\* compose as functions from state to state
Cur ==
    [ state |-> state, screen |-> screen, message |-> message, dom |-> dom,
      dropListeners |-> dropListeners, arrs |-> arrs, cur |-> cur,
      items |-> items, made |-> made, combinedText |-> combinedText,
      objectUrls |-> objectUrls, liveUrls |-> liveUrls, settings |-> settings,
      tasks |-> tasks, closed |-> closed, sent |-> sent, inserted |-> inserted,
      attempts |-> attempts, nextFile |-> nextFile, last |-> last ]

Commit(s) ==
    /\ state' = s.state
    /\ screen' = s.screen
    /\ message' = s.message
    /\ dom' = s.dom
    /\ dropListeners' = s.dropListeners
    /\ arrs' = s.arrs
    /\ cur' = s.cur
    /\ items' = s.items
    /\ made' = s.made
    /\ combinedText' = s.combinedText
    /\ objectUrls' = s.objectUrls
    /\ liveUrls' = s.liveUrls
    /\ settings' = s.settings
    /\ tasks' = s.tasks
    /\ closed' = s.closed
    /\ sent' = s.sent
    /\ inserted' = s.inserted
    /\ attempts' = s.attempts
    /\ nextFile' = s.nextFile
    /\ last' = s.last
    /\ UNCHANGED call

\* this.images
Images(s) == s.arrs[s.cur]

NewItem(buffer, mimeType) ==
    [ buffer |-> buffer, mimeType |-> mimeType, status |-> "pending",
      error |-> "", thumbnailUrl |-> NoUrl ]

\* the new item put in front of the others
pushImageFront(s, buffer, mimeType) ==
    LET id == Len(s.items) + 1
    IN  [ s EXCEPT !.items = Append(@, NewItem(buffer, mimeType)),
                   !.made  = Append(@, 0),
                   !.arrs[s.cur] = << id >> \o @ ]

\* this.images.push({ id: this.generateId(), ... }): a fresh object
pushImage(s, buffer, mimeType) ==
    LET id == Len(s.items) + 1
    IN  [ s EXCEPT !.items = Append(@, NewItem(buffer, mimeType)),
                   !.made  = Append(@, 0),
                   !.arrs[s.cur] = Append(@, id) ]

\* createObjectUrl, for the blob of item `id'
createObjectUrl(s, id) ==
    LET url == [ item |-> id, n |-> s.made[id] + 1 ]
    IN  [ s EXCEPT !.made[id] = @ + 1,
                   !.liveUrls = @ \cup { url },
                   !.objectUrls = @ \cup { url },
                   !.items[id].thumbnailUrl = url ]

\* revokeAllUrls
revokeAllUrls(s) ==
    LET listed == s.objectUrls
        thumbs == { s.items[Images(s)[i]].thumbnailUrl : i \in 1..Len(Images(s)) }
    IN  [ s EXCEPT !.liveUrls = (@ \ listed) \ thumbs,
                   !.objectUrls = { },
                   !.items = [ id \in 1..Len(s.items) |->
                                 IF id \in Range(Images(s))
                                 THEN [ s.items[id] EXCEPT !.thumbnailUrl = NoUrl ]
                                 ELSE s.items[id] ] ]

\* onClose: the array is replaced, not emptied
onClose(s) ==
    LET r == revokeAllUrls(s)
    IN  [ r EXCEPT !.dom = EmptyDom, !.closed = TRUE,
                   !.cur = r.cur + 1, !.arrs = Append(r.arrs, << >>) ]

\* renderSelect: besides the children it adds one more drop listener to
\* contentEl itself
renderSelect(s) ==
    [ s EXCEPT !.state = "select", !.screen = "select",
               !.dom = [ EmptyDom EXCEPT !.selectUi = TRUE ],
               !.dropListeners = @ + 1 ]

\* renderQueueList for one list element: one row per image
renderQueueList(s) ==
    [ s EXCEPT !.dom.rows = Len(Images(s)) ]

\* What a read of an array yields where it holds no element.
Undefined == 0

\* arr[k], k being the position of the source's index k - 1
ArrayGet(arr, k) == IF k \in 1..Len(arr) THEN arr[k] ELSE Undefined

\* arr[k] = v.  An assignment past the end lengthens the array and leaves
\* holes between the old end and k; an assignment to a negative index sets a
\* property of the object that is no element of the array.
ArraySet(arr, k, v) ==
    IF k \in 1..Len(arr) THEN [ arr EXCEPT ![k] = v ]
    ELSE IF k > Len(arr)
    THEN [ j \in 1..k |-> IF j <= Len(arr) THEN arr[j]
                          ELSE IF j = k THEN v ELSE Undefined ]
    ELSE arr

\* swapImages(a, b): three statements, no check of a or b
swapImages(s, a, b) ==
    LET temp == ArrayGet(Images(s), a)
        s1   == [ s  EXCEPT !.arrs[s.cur] = ArraySet(@, a, ArrayGet(Images(s), b)) ]
        s2   == [ s1 EXCEPT !.arrs[s.cur] = ArraySet(@, b, temp) ]
    IN  s2

\* renderError: this.state is left as it is
renderError(s, msg) ==
    [ s EXCEPT !.screen = "error", !.message = msg,
               !.dom = [ EmptyDom EXCEPT !.retryBtn = TRUE ] ]

\* renderPreview
renderPreview(s) ==
    LET hasErrors == \E i \in 1..Len(Images(s)) :
                        s.items[Images(s)[i]].status = "error"
    IN  [ s EXCEPT !.state = "preview",
                   !.screen = IF hasErrors THEN "failed" ELSE "preview",
                   !.dom = [ EmptyDom EXCEPT !.insertBtn = TRUE ] ]

\* the text inserted and the modal left open
insertIntoNoteStayOpen(s) ==
    [ s EXCEPT !.inserted = Append(@, s.combinedText) ]

\* insertIntoNote
insertIntoNote(s) ==
    onClose([ s EXCEPT !.inserted = Append(@, s.combinedText) ])

\* ------------------------------------------------------- suspended runs
FreeSlots(s) == { t \in 1..MaxTasks : s.tasks[t].kind = "idle" }

Lowest(S) == CHOOSE t \in S : \A u \in S : t <= u

\* the slot a run started now would suspend in (none is left: MaxTasks + 1)
NewSlot(s) == IF FreeSlots(s) = { } THEN MaxTasks + 1 ELSE Lowest(FreeSlots(s))

\* a run suspends in slot t; with no slot left the overflow is noted, and
\* the event that would cause it is not explored
Suspend(s, t, rec) ==
    IF t > MaxTasks THEN [ s EXCEPT !.last = [ op |-> "overflow", arg |-> 0 ] ]
    ELSE [ s EXCEPT !.tasks[t] = rec ]

Fits(s) == s.last.op # "overflow"

\* a run that has returned leaves `tasks'; the runs behind it move up, so
\* that the suspended runs are always listed oldest first
Finish(s, t) ==
    [ s EXCEPT !.tasks = [ u \in 1..MaxTasks |->
                             IF u < t THEN s.tasks[u]
                             ELSE IF u < MaxTasks THEN s.tasks[u + 1]
                             ELSE Idle ] ]

Mark(s, op, arg) == [ s EXCEPT !.last = [ op |-> op, arg |-> arg ] ]

\* renderQueue after `await this.ensureThumbnails()': the list and the
\* two buttons are appended to whatever contentEl holds by then
renderQueueTail(s) ==
    [ renderQueueList(s) EXCEPT !.dom.queueActions = TRUE ]

\* ensureThumbnails without the skip of the items that have a thumbnail
ensureThumbnailsNoSkip(s, t, rec, idx) ==
    LET a == s.arrs[rec.arr]
    IN  IF idx > Len(a)
        THEN Finish(renderQueueTail(s), t)
        ELSE Suspend(s, t, [ rec EXCEPT !.pc = "thumb", !.idx = idx,
                                        !.item = a[idx],
                                        !.argBuf = s.items[a[idx]].buffer,
                                        !.argMime = s.items[a[idx]].mimeType ])

\* ensureThumbnails: the for-of loop from iterator position idx on.  The
\* iterator reads the length and the element of the array at every step.  An
\* item that has a thumbnail is skipped; for the first one that has none
\* normalizeImage is called with the item's current bytes and the run
\* suspends.  When the loop ends renderQueue goes on.
ensureThumbnails(s, t, rec, idx) ==
    LET a == s.arrs[rec.arr]
        missing == { j \in idx..Len(a) : s.items[a[j]].thumbnailUrl = NoUrl }
    IN  IF missing = { }
        THEN Finish(renderQueueTail(s), t)
        ELSE LET j == Lowest(missing)
             IN  Suspend(s, t, [ rec EXCEPT !.pc = "thumb", !.idx = j,
                                            !.item = a[j],
                                            !.argBuf = s.items[a[j]].buffer,
                                            !.argMime = s.items[a[j]].mimeType ])

\* renderQueue up to its first suspension
renderQueue(s, t, rec) ==
    LET r == [ s EXCEPT !.state = "queue", !.screen = "queue", !.dom = EmptyDom ]
    IN  ensureThumbnails(r, t, [ rec EXCEPT !.arr = r.cur ], 1)

\* the body of the loops of handleFiles, addMoreFiles (type || getMimeType)
\* and of handleVaultFile (getMimeType only), after the read has settled
afterRead(s, t) ==
    LET rec  == s.tasks[t]
        file == Head(rec.files)
        mime == IF rec.kind # "handleVaultFile" /\ file.type # ""
                THEN file.type ELSE getMimeType(file.ext)
        p    == pushImage(s, Bytes(file.c, file.width, file.height, "raw"), mime)
        rest == Tail(rec.files)
    IN  IF rest # << >>
        THEN Suspend(p, t, [ rec EXCEPT !.files = rest ])
        ELSE renderQueue(p, t, [ rec EXCEPT !.files = rest ])

\* the prompt with the configured separator used as it is, empty or not
buildPromptNoFallback(cfg, total) ==
    LET sep == cfg.pageSeparator
    IN  IF total > 1
        THEN cfg.ocrPrompt
             \o << "\n\nYou are receiving ", ToString(total),
                   " images. They are consecutive pages of the same document, in order (image 1 = page 1, image 2 = page 2, etc.).",
                   " Transcribe each page. Between pages, insert a separator line." >>
             \o (IF cfg.showPageNumbers # FALSE
                 THEN << " Use this exact format for separators: \"", sep, " Page N ", sep,
                         "\" where N is the page number." >>
                 ELSE << " Use this exact separator: \"", sep, "\"." >>)
             \o << " Do not add a separator before the first page." >>
        ELSE cfg.ocrPrompt

\* the prompt of processAllImages, as a sequence of string pieces
buildPrompt(cfg, total) ==
    LET isMulti  == total > 1
        sep      == IF cfg.pageSeparator # "" THEN cfg.pageSeparator ELSE "---"
        showNums == cfg.showPageNumbers # FALSE
    IN  IF isMulti
        THEN cfg.ocrPrompt
             \o << "\n\nYou are receiving ", ToString(total),
                   " images. They are consecutive pages of the same document, in order (image 1 = page 1, image 2 = page 2, etc.).",
                   " Transcribe each page. Between pages, insert a separator line." >>
             \o (IF showNums
                 THEN << " Use this exact format for separators: \"", sep, " Page N ", sep,
                         "\" where N is the page number." >>
                 ELSE << " Use this exact separator: \"", sep, "\"." >>)
             \o << " Do not add a separator before the first page." >>
        ELSE cfg.ocrPrompt

\* the outcome recorded with a failure marked on the first page only
recordOutcomeFirstPageOnly(s, o) ==
    LET ids == Range(Images(s))
        r == IF o.ok
             THEN [ s EXCEPT !.combinedText = o.text,
                             !.items = [ id \in 1..Len(s.items) |->
                                 IF id \in ids
                                 THEN [ s.items[id] EXCEPT !.status = "done" ]
                                 ELSE s.items[id] ] ]
             ELSE [ s EXCEPT !.combinedText = << >>,
                             !.items = [ id \in 1..Len(s.items) |->
                                 IF Images(s) # << >> /\ id = Images(s)[1]
                                 THEN [ s.items[id] EXCEPT !.status = "error",
                                                           !.error = o.error ]
                                 ELSE s.items[id] ] ]
    IN  renderPreview(r)

\* the try/catch around extractTextFromImages and the renderPreview after it
recordOutcome(s, o) ==
    LET ids == Range(Images(s))
        r == IF o.ok
             THEN [ s EXCEPT !.combinedText = o.text,
                             !.items = [ id \in 1..Len(s.items) |->
                                 IF id \in ids
                                 THEN [ s.items[id] EXCEPT !.status = "done" ]
                                 ELSE s.items[id] ] ]
             ELSE [ s EXCEPT !.combinedText = << >>,
                             !.items = [ id \in 1..Len(s.items) |->
                                 IF id \in ids
                                 THEN [ s.items[id] EXCEPT !.status = "error",
                                                           !.error = o.error ]
                                 ELSE s.items[id] ] ]
    IN  renderPreview(r)

\* processAllImages after its loop: prompt, client, extractTextFromImages up
\* to requestUrl.  The settings are read here, not at entry.
dispatch(s, t, rec) ==
    LET prompt == buildPrompt(s.settings, rec.total)
    IN  IF s.settings.geminiApiKey = ""
        THEN Finish(recordOutcome(s, [ ok |-> FALSE, error |-> MsgMissingKey,
                                       text |-> << >> ]), t)
        ELSE Suspend([ s EXCEPT !.sent = Append(@,
                          [ key |-> s.settings.geminiApiKey,
                            model |-> s.settings.model,
                            parts |-> RequestParts(rec.parts, prompt),
                            total |-> rec.total, snap |-> rec.snap,
                            via |-> rec.via, cfg |-> rec.cfg ]) ],
                     t, [ rec EXCEPT !.pc = "net" ])

\* the loop of processAllImages from iterator position idx on
normalizeLoop(s, t, rec, idx) ==
    LET a == s.arrs[rec.arr]
    IN  IF idx <= Len(a)
        THEN Suspend([ s EXCEPT !.items[a[idx]].status = "processing" ], t,
                     [ rec EXCEPT !.pc = "norm", !.idx = idx, !.item = a[idx],
                                  !.argBuf = s.items[a[idx]].buffer,
                                  !.argMime = s.items[a[idx]].mimeType ])
        ELSE dispatch(s, t, rec)

\* processAllImages without the return on an empty queue
processAllImagesNoEmptyCheck(s, t, via) ==
    IF s.settings.geminiApiKey = ""
    THEN renderError(s, MsgNoKey)
    ELSE LET r == [ s EXCEPT !.state = "processing", !.screen = "processing",
                             !.dom = EmptyDom ]
         IN  normalizeLoop(r, t,
                 [ Idle EXCEPT !.kind = "processAllImages", !.arr = r.cur,
                               !.via = via, !.total = Len(Images(r)), !.snap = Images(r),
                               !.cfg = r.settings ], 1)

\* processAllImages without the check of the API key before the loop
processAllImagesNoPreflight(s, t, via) ==
    IF Len(Images(s)) = 0
    THEN s
    ELSE LET r == [ s EXCEPT !.state = "processing", !.screen = "processing",
                             !.dom = EmptyDom ]
         IN  normalizeLoop(r, t,
                 [ Idle EXCEPT !.kind = "processAllImages", !.arr = r.cur,
                               !.via = via, !.total = Len(Images(r)),
                               !.snap = Images(r), !.cfg = r.settings ], 1)

\* processAllImages up to its first suspension; `via' records which
\* listener called it, `cfg' the settings as they are at the entry
processAllImages(s, t, via) ==
    IF Len(Images(s)) = 0
    THEN s
    ELSE IF s.settings.geminiApiKey = ""
    THEN renderError(s, MsgNoKey)
    ELSE LET r == [ s EXCEPT !.state = "processing", !.screen = "processing",
                             !.dom = EmptyDom ]
         IN  normalizeLoop(r, t,
                 [ Idle EXCEPT !.kind = "processAllImages", !.arr = r.cur,
                               !.via = via, !.total = Len(Images(r)), !.snap = Images(r),
                               !.cfg = r.settings ], 1)

\* ------------------------------------------------------------ user events
\* the file lists a picker or a drop can deliver now: the next one or two
\* of the user's files
Picks ==
    IF nextFile >= MaxFiles THEN { }
    ELSE { << UserFile(nextFile + 1) >> }
         \cup (IF nextFile + 2 > MaxFiles THEN { }
               ELSE { << UserFile(nextFile + 1), UserFile(nextFile + 2) >> })

Reading(kind, files) == [ Idle EXCEPT !.kind = kind, !.pc = "read", !.files = files ]

\* change event of the file input of the select screen: handleFiles starts
\* and suspends in its first file.arrayBuffer()
ChooseFiles ==
    /\ ~closed /\ dom.selectUi
    /\ FreeSlots(Cur) # { }
    /\ \E files \in Picks :
         Commit(Mark(Suspend([ Cur EXCEPT !.nextFile = @ + Len(files) ],
                             Lowest(FreeSlots(Cur)), Reading("handleFiles", files)),
                     "add", 0))

\* the vault picker delivers one file: handleVaultFile starts and suspends
\* in readBinary
ChooseVaultFile ==
    /\ ~closed /\ dom.selectUi
    /\ FreeSlots(Cur) # { }
    /\ \E files \in { f \in Picks : Len(f) = 1 } :
         Commit(Mark(Suspend([ Cur EXCEPT !.nextFile = @ + 1 ],
                             Lowest(FreeSlots(Cur)), Reading("handleVaultFile", files)),
                     "add", 0))

\* drop event on contentEl: every drop listener registered so far starts its
\* own handleFiles on the dropped image files
RECURSIVE spawnDropped(_, _, _)
spawnDropped(s, n, files) ==
    IF n = 0 THEN s
    ELSE spawnDropped(Suspend(s, Lowest(FreeSlots(s)), Reading("handleFiles", files)),
                      n - 1, files)

\* f.type.startsWith("image/")
IsImageType(type) == type \in { "image/jpeg", "image/png", "image/heic" }

DropFiles ==
    /\ ~closed /\ dropListeners >= 1
    /\ Cardinality(FreeSlots(Cur)) >= dropListeners
    /\ \E files \in Picks :
         LET imageFiles == SelectSeq(files, LAMBDA f : IsImageType(f.type))
             r == [ Cur EXCEPT !.nextFile = @ + Len(files) ]
         IN  Commit(Mark(IF imageFiles = << >> THEN r
                         ELSE spawnDropped(r, dropListeners, imageFiles),
                         "add", 0))

\* change event of the "+ Add more" input of the queue screen
AddMore ==
    /\ ~closed /\ dom.queueActions
    /\ FreeSlots(Cur) # { }
    /\ \E files \in Picks :
         Commit(Mark(Suspend([ Cur EXCEPT !.nextFile = @ + Len(files) ],
                             Lowest(FreeSlots(Cur)), Reading("addMoreFiles", files)),
                     "add", 0))

\* click on the up button of row i (rows 2..n carry one), i being the
\* position the row was rendered for
MoveUp ==
    /\ ~closed /\ dom.rows > 1
    /\ \E i \in 2..dom.rows :
         Commit(Mark(renderQueueList(swapImages(Cur, i, i - 1)), "move", i))

\* click on the down button of row i (rows 1..n-1 carry one)
MoveDown ==
    /\ ~closed /\ dom.rows > 1
    /\ \E i \in 1..(dom.rows - 1) :
         Commit(Mark(renderQueueList(swapImages(Cur, i, i + 1)), "move", i))

\* the remove button without the return to the select screen
RemoveKeepsQueue ==
    /\ ~closed /\ dom.rows >= 1
    /\ \E i \in 1..dom.rows :
         LET r == [ Cur EXCEPT !.arrs[cur] = RemoveAt(@, i) ]
             n == renderQueue(r, NewSlot(r), [ Idle EXCEPT !.kind = "renderQueue" ])
         IN  /\ Fits(n)
             /\ Commit(Mark(n, "remove", i))

\* click on the remove button of row i
Remove ==
    /\ ~closed /\ dom.rows >= 1
    /\ \E i \in 1..dom.rows :
         LET r == [ Cur EXCEPT !.arrs[cur] = RemoveAt(@, i) ]
             n == IF Len(Images(r)) = 0
                  THEN renderSelect(r)
                  ELSE renderQueue(r, NewSlot(r), [ Idle EXCEPT !.kind = "renderQueue" ])
         IN  /\ Fits(n)
             /\ Commit(Mark(n, "remove", i))

Entered(s) == [ s EXCEPT !.attempts = @ + 1 ]

\* click on "Extract text"
ClickExtract ==
    /\ ~closed /\ dom.queueActions
    /\ attempts < MaxAttempts
    /\ LET n == processAllImages(Entered(Cur), NewSlot(Cur), "confirm")
       IN  Fits(n) /\ Commit(Mark(n, "confirm", 0))

\* click on "Retry"
ClickRetry ==
    /\ ~closed /\ dom.retryBtn
    /\ attempts < MaxAttempts
    /\ LET n == processAllImages(Entered(Cur), NewSlot(Cur), "retry")
       IN  Fits(n) /\ Commit(Mark(n, "retry", 0))

\* startWithImage, called by the clipboard command right after open()
Pristine ==
    /\ ~closed /\ items = << >> /\ attempts = 0 /\ nextFile = 0
    /\ \A t \in 1..MaxTasks : tasks[t].kind = "idle"

StartWithImage ==
    /\ Pristine
    /\ \E k \in { UserFile(1), UserFile(2) } :
         LET mime == IF k.type # "" THEN k.type ELSE "image/png"
             r == pushImage([ Cur EXCEPT !.nextFile = @ + 1, !.arrs[cur] = << >> ],
                            Bytes(nextFile + 1, k.width, k.height, "raw"), mime)
         IN  Commit(Mark(processAllImages(Entered(r), NewSlot(r), "start"),
                         "start", 0))

\* input event of the textarea of the preview
EditText ==
    /\ ~closed /\ dom.insertBtn
    /\ combinedText # EditedText
    /\ Commit(Mark([ Cur EXCEPT !.combinedText = EditedText ], "edit", 0))

\* click on "Insert into note"
ClickInsert ==
    /\ ~closed /\ dom.insertBtn
    /\ Commit(Mark(insertIntoNote(Cur), "insert", 0))

\* the modal is closed by the user or by the host
Close ==
    /\ ~closed
    /\ Commit(Mark(onClose(Cur), "close", 0))

\* ------------------------------------------------------- resumptions
\* file.arrayBuffer() or vault.readBinary() settles
FileRead ==
    \E t \in 1..MaxTasks :
        /\ tasks[t].pc = "read"
        /\ Commit(Mark(afterRead(Cur, t), "step", 0))

\* normalizeImage settles inside ensureThumbnails: the result is stored
\* unless the call threw, and the thumbnail is created unconditionally
thumbnailReady(s, t, o) ==
    LET rec == s.tasks[t]
        id  == rec.item
        n   == IF o.throws THEN s
               ELSE [ s EXCEPT !.items[id].buffer = o.buffer,
                               !.items[id].mimeType = o.mimeType ]
        u   == createObjectUrl(n, id)
    IN  ensureThumbnails(u, t, rec, rec.idx + 1)

ThumbnailReady ==
    \E t \in 1..MaxTasks :
        /\ tasks[t].pc = "thumb"
        /\ \E o \in normalizeImage(tasks[t].argBuf, tasks[t].argMime) :
             Commit(Mark(thumbnailReady(Cur, t, o), "step", 0))

\* normalizeImage settles inside processAllImages, and an exception it
\* threw is not caught: the run ends there
NormalizedUncaught ==
    \E t \in 1..MaxTasks :
        /\ tasks[t].pc = "norm"
        /\ \E o \in normalizeImage(tasks[t].argBuf, tasks[t].argMime) :
             LET rec == tasks[t]
                 id  == rec.item
                 n   == [ Cur EXCEPT !.items[id].buffer = o.buffer,
                                     !.items[id].mimeType = o.mimeType ]
                 u   == IF n.items[id].thumbnailUrl = NoUrl
                        THEN createObjectUrl(n, id) ELSE n
                 part == [ base64 |-> arrayBufferToBase64(u.items[id].buffer),
                           mimeType |-> u.items[id].mimeType, id |-> id ]
                 r == IF o.throws THEN Finish(Cur, t)
                      ELSE normalizeLoop(u, t, [ rec EXCEPT !.parts = Append(@, part) ],
                                         rec.idx + 1)
             IN  Commit(Mark(r, "step", 0))

\* normalizeImage settles inside processAllImages
Normalized ==
    \E t \in 1..MaxTasks :
        /\ tasks[t].pc = "norm"
        /\ \E o \in normalizeImage(tasks[t].argBuf, tasks[t].argMime) :
             LET rec == tasks[t]
                 id  == rec.item
                 n   == IF o.throws THEN Cur
                        ELSE [ Cur EXCEPT !.items[id].buffer = o.buffer,
                                          !.items[id].mimeType = o.mimeType ]
                 u   == IF n.items[id].thumbnailUrl = NoUrl
                        THEN createObjectUrl(n, id) ELSE n
                 part == [ base64 |-> arrayBufferToBase64(u.items[id].buffer),
                           mimeType |-> u.items[id].mimeType, id |-> id ]
                 r == normalizeLoop(u, t, [ rec EXCEPT !.parts = Append(@, part) ],
                                    rec.idx + 1)
             IN  Commit(Mark(r, IF FreeSlots(r) # FreeSlots(Cur) THEN "failure"
                                ELSE "step", 0))

\* requestUrl settles, and a failed request is sent once more
RespondedWithRetry ==
    \E t \in 1..MaxTasks :
        /\ tasks[t].pc = "net"
        /\ \E r \in Responses :
             LET o == ParseResponse(r)
             IN  IF o.ok
                 THEN Commit(Mark(Finish(recordOutcome(Cur, o), t), "success", 0))
                 ELSE Commit(Mark([ Cur EXCEPT !.sent = Append(@, sent[Len(sent)]) ],
                                  "step", 0))

\* requestUrl settles
Responded ==
    \E t \in 1..MaxTasks :
        /\ tasks[t].pc = "net"
        /\ \E r \in Responses :
             LET o == ParseResponse(r)
             IN  Commit(Mark(Finish(recordOutcome(Cur, o), t),
                             IF o.ok THEN "success" ELSE "failure", 0))

\* ------------------------------------------------------------ the system
\* the session right after open(): onOpen has rendered the select screen
InitSettings ==
    { [ DEFAULT_SETTINGS EXCEPT !.geminiApiKey = k ] : k \in { "", "key" } }

Init ==
    /\ state = "select"
    /\ screen = "select"
    /\ message = ""
    /\ dom = [ EmptyDom EXCEPT !.selectUi = TRUE ]
    /\ dropListeners = 1
    /\ arrs = << << >> >>
    /\ cur = 1
    /\ items = << >>
    /\ made = << >>
    /\ combinedText = << >>
    /\ objectUrls = { }
    /\ liveUrls = { }
    /\ settings \in InitSettings
    /\ tasks = [ t \in 1..MaxTasks |-> Idle ]
    /\ closed = FALSE
    /\ sent = << >>
    /\ inserted = << >>
    /\ attempts = 0
    /\ nextFile = 0
    /\ last = [ op |-> "open", arg |-> 0 ]
    /\ call = NoCall

Next ==
    \/ ChooseFiles
    \/ ChooseVaultFile
    \/ DropFiles
    \/ AddMore
    \/ MoveUp
    \/ MoveDown
    \/ Remove
    \/ ClickExtract
    \/ ClickRetry
    \/ StartWithImage
    \/ EditText
    \/ ClickInsert
    \/ Close
    \/ FileRead
    \/ ThumbnailReady
    \/ Normalized
    \/ Responded

Spec == Init /\ [][Next]_vars

\* ------------------------------------------------ the session of one batch
\* The session from the moment the queue screen shows a loaded queue of one
\* to MaxPages pages, each with its thumbnail, and no read is pending; the
\* user reorders, removes, confirms, retries, edits, inserts or closes, and
\* supplies no further file.  The settings are any of BatchSettings.
BatchSettings ==
    { [ DEFAULT_SETTINGS EXCEPT !.geminiApiKey = k, !.pageSeparator = sep,
                                !.showPageNumbers = nums ] :
        k \in { "", "key" }, sep \in { "", "---", "***" }, nums \in BOOLEAN }

LoadedItem(c) ==
    LET f == UserFile(c)
    IN  [ NewItem(Bytes(c, f.width, f.height, "raw"),
                  IF f.type # "" THEN f.type ELSE getMimeType(f.ext))
          EXCEPT !.thumbnailUrl = [ item |-> c, n |-> 1 ] ]

InitBatch ==
    \E n \in 1..MaxPages :
        /\ state = "queue"
        /\ screen = "queue"
        /\ message = ""
        /\ dom = [ EmptyDom EXCEPT !.rows = n, !.queueActions = TRUE ]
        /\ dropListeners = 1
        /\ arrs = << [ c \in 1..n |-> c ] >>
        /\ cur = 1
        /\ items = [ c \in 1..n |-> LoadedItem(c) ]
        /\ made = [ c \in 1..n |-> 1 ]
        /\ combinedText = << >>
        /\ objectUrls = { [ item |-> c, n |-> 1 ] : c \in 1..n }
        /\ liveUrls = { [ item |-> c, n |-> 1 ] : c \in 1..n }
        /\ settings \in BatchSettings
        /\ tasks = [ t \in 1..MaxTasks |-> Idle ]
        /\ closed = FALSE
        /\ sent = << >>
        /\ inserted = << >>
        /\ attempts = 0
        /\ nextFile = n
        /\ last = [ op |-> "step", arg |-> 0 ]
        /\ call = NoCall

NextBatch ==
    \/ MoveUp
    \/ MoveDown
    \/ Remove
    \/ ClickExtract
    \/ ClickRetry
    \/ EditText
    \/ ClickInsert
    \/ Close
    \/ Normalized
    \/ Responded

SpecBatch == InitBatch /\ [][NextBatch]_vars

\* the runs of processAllImages that have been entered and not yet recorded
\* their outcome
InFlight == { t \in 1..MaxTasks : tasks[t].kind = "processAllImages" }

\* ------------------------------------------- the settings tab beside a batch
\* The plugin hands the modal its own settings object, and the onChange
\* handlers of the settings tab assign to the fields of that object: an edit
\* made while the modal is open is seen by the modal at its next read.
\* The edits explored are those of any field while a run of
\* processAllImages is in flight and those of the key while the error
\* notice is up, in a session that starts with the default settings, with
\* or without a key.
OtherPrompt == << "Transcribe the text. ", "Keep the line breaks." >>

SettingsValues ==
    [ geminiApiKey    |-> { "", "key", "key2" },
      model           |-> { "gemini-2.5-flash", "gemini-2.5-pro" },
      ocrPrompt       |-> { OcrPrompt, OtherPrompt },
      pageSeparator   |-> { "---", "***" },
      showPageNumbers |-> BOOLEAN ]

\* one onChange handler of the settings tab runs
ChangeSettings ==
    /\ ~closed
    /\ \E f \in DOMAIN SettingsValues : \E v \in SettingsValues[f] :
         /\ InFlight # { } \/ (dom.retryBtn /\ f = "geminiApiKey")
         /\ v # settings[f]
         /\ settings' = [ settings EXCEPT ![f] = v ]
    /\ last' = [ op |-> "settings", arg |-> 0 ]
    /\ UNCHANGED << state, screen, message, dom, dropListeners, arrs, cur, items,
                    made, combinedText, objectUrls, liveUrls, tasks, closed, sent,
                    inserted, attempts, nextFile, call >>

NextSettings ==
    \/ MoveUp
    \/ MoveDown
    \/ Remove
    \/ ClickExtract
    \/ ClickRetry
    \/ EditText
    \/ ClickInsert
    \/ Close
    \/ Normalized
    \/ Responded
    \/ ChangeSettings

InitSettingsTab ==
    /\ InitBatch
    /\ settings \in InitSettings

SpecSettings == InitSettingsTab /\ [][NextSettings]_vars

\* The session of one batch with its pending work eventually done:
\* normalizeImage always settles (tryCreateBitmap races the decoder against a
\* timer), and the remote service eventually answers or the request fails.
SpecBatchLive == SpecBatch /\ WF_vars(Normalized) /\ WF_vars(Responded)

\* ------------------------------------------------ the functions on their own
\* swapImages, normalizeImage and extractTextFromImages called once each on
\* arguments drawn from the sets below; `call' records the arguments and the
\* result.  The modal itself stays as it was opened.
modalVars == << state, screen, message, dom, dropListeners, arrs, cur, items,
                made, combinedText, objectUrls, liveUrls, settings, tasks,
                closed, sent, inserted, attempts, nextFile, last >>

\* widths and heights of pictures, around MAX_DIMENSION and far from it
Dimensions == { 1, 3, 4096, 4097, 5000, 8192 }

\* declared formats: two of the safe list, one of MIME_MAP outside it and
\* one unknown to both
Formats == { "image/jpeg", "image/png", "image/heic", "image/tiff" }

\* what requestUrl can settle with: rejections with and without a status
\* and a message, and responses with an error payload, with no candidate,
\* with an empty, a blank and an ordinary text
ServiceOutcomes ==
    { Rejection(429, "Too Many Requests"), Rejection(429, ""),
      Rejection(403, "Forbidden"), Rejection(500, "Server Error"),
      Rejection(0, "net::ERR_FAILED"), Rejection(0, ""),
      Payload(TRUE, "quota exceeded", FALSE, << >>),
      Payload(TRUE, "", FALSE, << >>),
      Payload(TRUE, "quota exceeded", TRUE, << "H", "i" >>),
      Payload(FALSE, "", FALSE, << >>),
      Payload(FALSE, "", TRUE, << >>),
      Payload(FALSE, "", TRUE, << " ", "\n" >>),
      Payload(FALSE, "", TRUE, << " ", "H", "i", "\n" >>) }

\* swapImages(a, b) on a queue of n pages; a and b range from the position
\* before the first (the source's index -1) to the one after the last
CallSwapImages ==
    /\ \E n \in 0..MaxPages : \E a, b \in 0..(n + 1) :
         LET s == [ Cur EXCEPT !.arrs = << [ c \in 1..n |-> c ] >>, !.cur = 1 ]
         IN  call' = [ fn |-> "swapImages", images |-> Images(s), a |-> a, b |-> b,
                       result |-> Images(swapImages(s, a, b)) ]
    /\ UNCHANGED modalVars

CallNormalizeImage ==
    /\ \E w \in Dimensions, h \in Dimensions, m \in Formats :
         \E o \in normalizeImage(Bytes(1, w, h, "raw"), m) :
            call' = [ fn |-> "normalizeImage", buffer |-> Bytes(1, w, h, "raw"),
                      mimeType |-> m, outcome |-> o ]
    /\ UNCHANGED modalVars

CallExtractText ==
    /\ \E k \in { "", "key" }, r \in ServiceOutcomes :
         call' = [ fn |-> "extractTextFromImages", apiKey |-> k, response |-> r,
                   outcome |-> extractTextFromImages(k, r) ]
    /\ UNCHANGED modalVars

\* a queue of pages 1..n of which those of `previewed' have a thumbnail,
\* with no run suspended
RECURSIVE QueueOf(_, _)
QueueOf(n, previewed) ==
    IF n = 0
    THEN [ Cur EXCEPT !.arrs = << << >> >>, !.cur = 1, !.items = << >>,
                      !.made = << >>, !.objectUrls = { }, !.liveUrls = { } ]
    ELSE LET q == QueueOf(n - 1, previewed)
         IN  IF n \in previewed
             THEN [ q EXCEPT !.arrs[1] = Append(@, n),
                             !.items = Append(@, LoadedItem(n)),
                             !.made = Append(@, 1),
                             !.objectUrls = @ \cup { LoadedItem(n).thumbnailUrl },
                             !.liveUrls = @ \cup { LoadedItem(n).thumbnailUrl } ]
             ELSE [ q EXCEPT !.arrs[1] = Append(@, n),
                             !.items = Append(@, [ LoadedItem(n) EXCEPT
                                                     !.thumbnailUrl = NoUrl ]),
                             !.made = Append(@, 0) ]

\* a run of ensureThumbnails suspended in slot 1 goes on alone until it
\* returns: every store it can end in
RECURSIVE ensureThumbnailsSettled(_)
ensureThumbnailsSettled(s) ==
    IF s.tasks[1].pc = "thumb"
    THEN UNION { ensureThumbnailsSettled(thumbnailReady(s, 1, o)) :
                   o \in normalizeImage(s.tasks[1].argBuf, s.tasks[1].argMime) }
    ELSE { s }

\* await this.ensureThumbnails() from its call to its return, nothing else
\* running in between
ensureThumbnailsAlone(s) ==
    ensureThumbnailsSettled(
        ensureThumbnails(s, 1, [ Idle EXCEPT !.kind = "renderQueue", !.arr = s.cur ], 1))

\* what ensureThumbnails can change: the items, the URLs and the queue
Previews(s) ==
    [ images |-> Images(s), items |-> s.items, made |-> s.made,
      objectUrls |-> s.objectUrls, liveUrls |-> s.liveUrls ]

\* ensureThumbnails run alone on a queue of n pages, then once more on the
\* result
CallEnsureThumbnails ==
    /\ \E n \in 1..MaxPages : \E previewed \in SUBSET (1..n) :
         LET s == QueueOf(n, previewed)
         IN  \E once \in ensureThumbnailsAlone(s) :
               \E twice \in ensureThumbnailsAlone(once) :
                  call' = [ fn |-> "ensureThumbnails", before |-> Previews(s),
                            once |-> Previews(once), twice |-> Previews(twice) ]
    /\ UNCHANGED modalVars

NextCalls ==
    \/ CallSwapImages
    \/ CallNormalizeImage
    \/ CallExtractText
    \/ CallEnsureThumbnails

SpecCalls == Init /\ [][NextCalls]_vars

\* ====================================================== the specification's
\* vocabulary
\* The phase of the session.  The source keeps select, queue, processing and
\* preview in this.state and has no error value: the error phase is the
\* error notice on screen, put up by renderError or by renderPreview when a
\* page has status error.
Phase == IF screen = "failed" THEN "error" ELSE screen

\* the page queue
Queue == arrs[cur]

\* the inline-data parts of a request, in the order sent
ImageParts(r) == SelectSeq(r.parts, LAMBDA p : p.kind = "inline_data")

\* the prompt of a request
PromptOf(r) == r.parts[1].text

\* s contains the pieces of t as a contiguous run
Contains(s, t) ==
    \E k \in 0..(Len(s) - Len(t)) : SubSeq(s, k + 1, k + Len(t)) = t

\* the listeners through which the user edits the queue or confirms it
QueueListeners == dom.rows > 0 \/ dom.queueActions \/ dom.retryBtn

\* ------------------------------------------------------------------- C1
\* C1: at most one run of processAllImages is in flight, and while the
\* phase is processing no listener for add more, reorder, remove or confirm
\* is there to accept a user action.
C1_NoOverlappingProcessing ==
    /\ Cardinality(InFlight) <= 1
    /\ (Phase = "processing" /\ ~closed) => ~QueueListeners

\* ------------------------------------------------------------------- C3
\* C3: from phase processing the phase of the open session only ever
\* changes to preview, on a successful response, or to error, on a failed one.
C3_ProcessingLeadsToPreviewOrError ==
    [][ (Phase = "processing" /\ ~closed') =>
          /\ Phase' \in { "processing", "preview", "error" }
          /\ (Phase' = "preview" => last'.op = "success")
          /\ (Phase' = "error" => last'.op = "failure") ]_vars

\* ------------------------------------------------------------------- C4
\* C4: after a failed extraction request a retry listener is there, and a
\* request sent by a retry carries the image parts of the request before it.
C4_RetryResendsSameBatch ==
    /\ (last.op = "failure" /\ ~closed) => dom.retryBtn
    /\ \A k \in 1..Len(sent) :
         sent[k].via = "retry" =>
            k > 1 /\ ImageParts(sent[k]) = ImageParts(sent[k - 1])

\* ------------------------------------------------------------------- C6
\* C6: every request consists of one text part followed by one inline-data
\* part per page of the queue as it was at confirmation, the i-th part being
\* built from the i-th page.
C6_OnePartPerQueuedPage ==
    \A k \in 1..Len(sent) :
        LET r == sent[k]
        IN  /\ r.parts[1].kind = "text"
            /\ Len(r.parts) = 1 + Len(r.snap)
            /\ \A i \in 1..Len(r.snap) :
                 /\ r.parts[i + 1].kind = "inline_data"
                 /\ r.parts[i + 1].id = r.snap[i]

\* ------------------------------------------------------------------- C7
\* C7: while a run of processAllImages is in flight and the session is
\* open the page queue stays as it is, and the queue is reordered only in
\* phase queue.
C7_QueueFrozenInFlight ==
    [][ /\ (InFlight # { } /\ ~closed') => Queue' = Queue
        /\ last'.op = "move" => Phase = "queue" ]_vars

\* ------------------------------------------------------------------- C8
\* C8: a request that carries one page has the base prompt as its prompt;
\* a request that carries two or more pages has the base prompt followed by
\* the multi-page block, whose last sentence forbids a separator before the
\* first page.
LastSentence == " Do not add a separator before the first page."

C8_PromptByPageCount ==
    \A k \in 1..Len(sent) :
        LET r == sent[k]
            n == Len(ImageParts(r))
            p == PromptOf(r)
            b == settings.ocrPrompt
        IN  /\ n = 1 => p = b
            /\ n >= 2 => /\ Len(p) > Len(b)
                         /\ SubSeq(p, 1, Len(b)) = b
                         /\ p[Len(p)] = LastSentence

\* ------------------------------------------------------------------- C2
\* C2: an entry into processAllImages with a page queued and no API key
\* puts up the error notice with the configuration message, starts no run,
\* sends no request and changes no page's status.
C2_NoCredentialNoCall ==
    [][ (attempts' = attempts + 1 /\ settings.geminiApiKey = "" /\ Len(Queue') >= 1) =>
          /\ Phase' = "error"
          /\ message' = MsgNoKey
          /\ sent' = sent
          /\ tasks' = tasks
          /\ \A id \in 1..Len(items') :
               items'[id].status =
                  IF id <= Len(items) THEN items[id].status ELSE "pending" ]_vars

\* a retry with a page queued and no key has just been answered by the notice
C2_Witness ==
    /\ last.op = "retry" /\ settings.geminiApiKey = ""
    /\ Len(Queue) >= 1 /\ screen = "error" /\ sent = << >>

\* ------------------------------------------------------------------- C5
\* C5: when an attempt has just ended in failure every page of the queue
\* has status error and the combined text is empty.
C5_FailureMarksAllPages ==
    last.op = "failure" =>
        /\ \A i \in 1..Len(Queue) : items[Queue[i]].status = "error"
        /\ combinedText = << >>

\* a failed request for a queue of two pages, after an earlier request
C5_Witness ==
    /\ last.op = "failure" /\ ~closed
    /\ Len(Queue) >= 2 /\ Len(sent) >= 2

\* ------------------------------------------------------------------- C9
\* C9: the multi-page block names the configured separator, or "---" when
\* the configured one is empty; with page numbers on it gives the pattern
\* "<sep> Page N <sep>", with page numbers off the bare separator and no
\* page-number pattern.
C9_SeparatorInstruction ==
    \A k \in 1..Len(sent) :
        LET r   == sent[k]
            p   == PromptOf(r)
            sep == IF settings.pageSeparator = "" THEN "---"
                   ELSE settings.pageSeparator
            numbered == << " Use this exact format for separators: \"", sep,
                           " Page N ", sep, "\" where N is the page number." >>
            bare     == << " Use this exact separator: \"", sep, "\"." >>
        IN  Len(ImageParts(r)) >= 2 =>
               IF settings.showPageNumbers
               THEN Contains(p, numbered) /\ ~Contains(p, bare)
               ELSE Contains(p, bare) /\ ~Contains(p, << " Page N " >>)

\* a request of several pages sent with no separator configured and page
\* numbers off
C9_Witness ==
    /\ settings.pageSeparator = "" /\ ~settings.showPageNumbers
    /\ \E k \in 1..Len(sent) : Len(ImageParts(sent[k])) >= 2

\* ------------------------------------------------------------------ C10
\* C10: a click on the remove button of row i in phase queue deletes
\* exactly the page at position i, keeps the others in order, and leaves the
\* phase at queue unless the queue became empty, in which case it is select.
C10_RemoveOnePage ==
    [][ (last'.op = "remove" /\ Phase = "queue") =>
          LET i == last'.arg
          IN  /\ i \in 1..Len(Queue)
              /\ Queue' = SubSeq(Queue, 1, i - 1) \o SubSeq(Queue, i + 1, Len(Queue))
              /\ Phase' = IF Len(Queue) = 1 THEN "select" ELSE "queue" ]_vars

\* the first of two pages has just been removed in phase queue
C10_Witness ==
    /\ last.op = "remove" /\ last.arg = 1
    /\ Phase = "queue" /\ Queue = << 2 >>

C12_NoImplicitReorder ==
    [][ last'.op \notin { "close", "insert" } =>
          /\ Cardinality(Range(Queue')) = Len(Queue')
          /\ IF last'.op = "move"
             THEN \E j \in { last'.arg - 1, last'.arg + 1 } :
                     /\ last'.arg \in 1..Len(Queue) /\ j \in 1..Len(Queue)
                     /\ Queue' = [ Queue EXCEPT ![last'.arg] = Queue[j],
                                                ![j] = Queue[last'.arg] ]
             ELSE IF last'.op = "remove"
             THEN /\ last'.arg \in 1..Len(Queue)
                  /\ Queue' = SubSeq(Queue, 1, last'.arg - 1)
                                 \o SubSeq(Queue, last'.arg + 1, Len(Queue))
             ELSE /\ Len(Queue') >= Len(Queue)
                  /\ SubSeq(Queue', 1, Len(Queue)) = Queue ]_vars

\* two pages added in one pick and then exchanged by a move
C12_Witness ==
    /\ last.op = "move" /\ ~closed
    /\ Queue = << 2, 1 >>

\* ------------------------------------------------------------------ C13
\* C13: once the session has been closed no object URL it created is
\* live, whatever was in flight at the close and whatever settles after it.
C13_CloseReleasesAllUrls ==
    closed => liveUrls = { }

\* ------------------------------------------------------------------ C14
\* C14: a click on the remove button of a row leaves no object URL of the
\* removed page live.
C14_RemoveReleasesUrl ==
    [][ (last'.op = "remove" /\ last'.arg \in 1..Len(Queue)) =>
          \A u \in liveUrls' : u.item # Queue[last'.arg] ]_vars

\* ------------------------------------------------------------------ C15
\* C15: editor.replaceSelection is called only by a click on "Insert into
\* note", at most once in a session, and with the result text as it is at
\* that moment; an edit of the textarea is the result text from then on, so
\* that an insert right after an edit inserts the edited text.
C15_InsertsCurrentTextOnce ==
    [][ /\ inserted' # inserted =>
             /\ last'.op = "insert"
             /\ inserted = << >>
             /\ inserted' = << combinedText >>
        /\ last'.op = "insert" => Len(inserted') = 1
        /\ last'.op = "edit" => combinedText' = EditedText
        /\ (last.op = "edit" /\ last'.op = "insert") =>
             inserted' = << EditedText >> ]_vars

\* the text of a successful extraction was edited and then inserted
C15_Witness ==
    /\ last.op = "insert" /\ closed
    /\ inserted = << EditedText >>
    /\ \A i \in 1..Len(arrs[cur - 1]) : items[arrs[cur - 1][i]].status = "done"
    /\ Len(arrs[cur - 1]) >= 1

C17_NoAutomaticRetry ==
    /\ Len(sent) <= attempts
    /\ settings.geminiApiKey = "" => sent = << >>

\* two attempts, two requests, the second of them just failed
C17_Witness ==
    /\ attempts = 2 /\ Len(sent) = 2
    /\ last.op = "failure" /\ InFlight = { }

\* ------------------------------------------------------------------ C18
\* C18: normalizeImage never throws, whatever its internal steps do, and a
\* result that no encoder produced is the original buffer and format.
C18_NormalizeNeverFails ==
    call.fn = "normalizeImage" =>
        /\ ~call.outcome.throws
        /\ call.outcome.buffer.enc = "raw" =>
              /\ call.outcome.buffer = call.buffer
              /\ call.outcome.mimeType = call.mimeType

\* ------------------------------------------------------------------ C19
\* C19: for a JPEG, PNG, GIF or WEBP whose width and height are both at most
\* the maximum dimension, normalizeImage returns the buffer and the format
\* it was given, whether createImageBitmap yields a bitmap or not.
C19_SafeSmallUnchanged ==
    ( /\ call.fn = "normalizeImage"
      /\ call.mimeType \in { "image/jpeg", "image/png", "image/gif", "image/webp" }
      /\ call.buffer.width <= 4096 /\ call.buffer.height <= 4096 ) =>
        /\ ~call.outcome.throws
        /\ call.outcome.buffer = call.buffer
        /\ call.outcome.mimeType = call.mimeType

\* a PNG of exactly the maximum size that could not be decoded
C19_Witness ==
    /\ call.fn = "normalizeImage" /\ call.mimeType = "image/png"
    /\ call.buffer.width = 4096 /\ call.buffer.height = 4096
    /\ ~call.outcome.bitmap /\ ~call.outcome.throws

\* ------------------------------------------------------------------ C20
\* C20: when the picture decodes and its longer side m exceeds the bound
\* B = 4096, the re-encoded picture is a JPEG whose longer side is B and
\* whose sides are the integers nearest to w * B / m and h * B / m (at most
\* half a pixel away from them).
C20_ResizeTarget ==
    ( /\ call.fn = "normalizeImage"
      /\ MathMax(call.buffer.width, call.buffer.height) > 4096
      /\ call.outcome.bitmap /\ ~call.outcome.throws ) =>
        LET w  == call.buffer.width
            h  == call.buffer.height
            m  == IF w >= h THEN w ELSE h
            tw == call.outcome.buffer.width
            th == call.outcome.buffer.height
            Dist(a, b) == IF a >= b THEN a - b ELSE b - a
        IN  /\ call.outcome.mimeType = "image/jpeg"
            /\ (IF tw >= th THEN tw ELSE th) = 4096
            /\ 2 * Dist(tw * m, w * 4096) <= m
            /\ 2 * Dist(th * m, h * 4096) <= m

\* a picture of 3 by 5000 was re-encoded at 2 by 4096
C20_Witness ==
    /\ call.fn = "normalizeImage"
    /\ call.buffer.width = 3 /\ call.buffer.height = 5000
    /\ call.outcome.bitmap /\ ~call.outcome.throws
    /\ call.outcome.buffer.width = 2 /\ call.outcome.buffer.height = 4096

\* ------------------------------------------------------------------ C21
\* C21: a request that carries two or more image parts carries the
\* multi-page block, and the number of images a block states is the number
\* of image parts of its request.
C21_StatedCountIsSentCount ==
    \A k \in 1..Len(sent) :
        LET r == sent[k]
            n == Len(ImageParts(r))
            p == PromptOf(r)
            b == Len(settings.ocrPrompt)
        IN  /\ n >= 2 => Len(p) > b
            /\ Len(p) > b =>
                 /\ p[b + 1] = "\n\nYou are receiving "
                 /\ p[b + 2] = ToString(n)

\* ------------------------------------------------------------------ C22
\* C22: no page item has two object URLs live at the same time.
C22_OneLiveUrlPerItem ==
    \A id \in 1..Len(items) :
        Cardinality({ u \in liveUrls : u.item = id }) <= 1

\* ------------------------------------------------------------------ C23
\* C23: while the open session shows the preview no page of the queue has
\* status error, and the result text is the trimmed text of a successful
\* response or the user's edit of it.
C23_PreviewHasExtractedText ==
    (Phase = "preview" /\ ~closed) =>
        /\ \A i \in 1..Len(Queue) : items[Queue[i]].status # "error"
        /\ sent # << >>
        /\ \/ combinedText = EditedText
           \/ \E r \in Responses :
                 ParseResponse(r).ok /\ combinedText = Trim(r.text)
        /\ combinedText # << >>

\* ------------------------------------------------------------------ C25
\* C25: the status of a page changes only from pending to processing and
\* from processing to done or error, except that an entry into
\* processAllImages may put it back to pending.
C25_StatusAdvances ==
    [][ \A id \in 1..Len(items) :
          LET old == items[id].status
              new == items'[id].status
          IN  \/ new = old
              \/ old = "pending" /\ new = "processing"
              \/ old = "processing" /\ new \in { "done", "error" }
              \/ attempts' = attempts + 1 /\ new = "pending" ]_vars

\* ------------------------------------------------------------------ C26
\* C26: an item whose error field is set has status error.
C26_ErrorDetailOnlyOnError ==
    \A id \in 1..Len(items) :
        items[id].error # "" => items[id].status = "error"

C27_SettingsAsOfEntry ==
    \A k \in 1..Len(sent) :
        LET r == sent[k]
        IN  /\ r.key = r.cfg.geminiApiKey
            /\ r.model = r.cfg.model
            /\ PromptOf(r) = buildPrompt(r.cfg, r.total)

\* ------------------------------------------------------------------ C28
\* C28: a run of ensureThumbnails on a queue in which every item has its
\* thumbnail changes no item (bytes, format, thumbnail URL) and creates no
\* object URL; a run leaves every item of the queue with a thumbnail and
\* the items that had one as they were; and a second run right after a
\* first changes nothing the first left.
C28_ThumbnailsIdempotent ==
    call.fn = "ensureThumbnails" =>
        LET q == call.before.images
        IN  /\ (\A i \in 1..Len(q) : call.before.items[q[i]].thumbnailUrl # NoUrl)
                  => call.once = call.before
            /\ \A i \in 1..Len(q) :
                  /\ call.once.items[q[i]].thumbnailUrl # NoUrl
                  /\ call.before.items[q[i]].thumbnailUrl # NoUrl
                        => call.once.items[q[i]] = call.before.items[q[i]]
            /\ call.twice = call.once

\* a queue of two pages of which the first had its thumbnail: the run gave
\* the second one
C28_Witness ==
    /\ call.fn = "ensureThumbnails" /\ Len(call.before.images) = 2
    /\ call.before.items[1].thumbnailUrl # NoUrl
    /\ call.before.items[2].thumbnailUrl = NoUrl
    /\ call.once.items[2].thumbnailUrl # NoUrl
    /\ call.once.items[2].mimeType = "image/jpeg"

\* ------------------------------------------------------------------ C29
\* C29: a call of normalizeImage ends after at most one call of
\* convertWithNativeImage and at most one nested call of itself, and a
\* result that comes from the nested call is a JPEG.
C29_OneConversionAttempt ==
    call.fn = "normalizeImage" =>
        /\ call.outcome.conversions <= 1
        /\ call.outcome.depth <= 1
        /\ call.outcome.depth <= call.outcome.conversions
        /\ call.outcome.depth = 1 => call.outcome.mimeType = "image/jpeg"

\* a HEIC picture that did not decode, was converted natively and came back
\* from the nested call
C29_Witness ==
    /\ call.fn = "normalizeImage" /\ call.mimeType = "image/heic"
    /\ call.outcome.depth = 1 /\ call.outcome.conversions = 1
    /\ call.outcome.buffer.enc = "native"

\* ------------------------------------------------------------------ C30
\* C30: a text that extractTextFromImages returns is the text of the
\* response without its leading and trailing white space, and is not empty.
C30_ReturnedTextNonEmpty ==
    (call.fn = "extractTextFromImages" /\ call.outcome.ok) =>
        /\ call.outcome.text = Trim(call.response.text)
        /\ call.outcome.text # << >>

\* ------------------------------------------------------------------ C31
\* C31: every request sent carries at least one image part, whatever was
\* removed or closed while the pages were normalized; and a call of
\* processAllImages on an empty queue (a click on "Extract text" or on
\* "Retry" while this.images is empty) sends nothing and leaves the modal
\* as it was.
C31_NoRequestWithoutImage ==
    [][ /\ \A k \in 1..Len(sent') : Len(ImageParts(sent'[k])) >= 1
        /\ ( /\ attempts' # attempts /\ last'.op \in { "confirm", "retry" }
             /\ Len(Queue) = 0 ) =>
               UNCHANGED << state, screen, message, dom, dropListeners, arrs,
                            cur, items, made, combinedText, objectUrls,
                            liveUrls, settings, tasks, closed, sent, inserted,
                            nextFile >> ]_vars

\* the one page of the queue was removed while its normalization for the
\* request was pending: the request has gone out with that page
C31_Witness ==
    /\ Len(sent) = 1 /\ ~closed /\ Len(Queue) = 0
    /\ Len(sent[1].snap) = 1 /\ Len(ImageParts(sent[1])) = 1
    /\ \E t \in 1..MaxTasks : tasks[t].pc = "net"

====
